---- MODULE Spec2Model ----
(***************************************************************************)
(* Model of bookpurr's text chunker (src/src/bookpurr/chunk_text.py).      *)
(*                                                                         *)
(* A text is a sequence of code points; a code point is a string: the      *)
(* character itself for ASCII, its U+XXXX name otherwise.  The regular     *)
(* expressions of the source are modelled by scanners over such sequences  *)
(* which follow Python's leftmost, greedy matching.                        *)
(***************************************************************************)
EXTENDS Integers, Sequences, FiniteSets, TLC

VARIABLES input, max_units, pc, op, text, level, out, raised, ret, via

vars == <<input, max_units, pc, op, text, level, out, raised, ret, via>>

(***************************************************************************)
(* Code points and the character classes the source distinguishes.         *)
(***************************************************************************)
SP == " "
NL == "\n"
Han == "U+4E2D"
HanWen == "U+6587"
IdeoStop == "U+3002"
FullComma == "U+FF0C"
FullSemi == "U+FF1B"
FullColon == "U+FF1A"
FullQuestion == "U+FF1F"
FullExcl == "U+FF01"
ArabicThree == "U+0663"

\* str.strip(), str.split() and \s
Whitespace == {SP, NL}

\* [a-zA-Z0-9]
Alnum == {"a", "b", "1", "2"}

\* [0-9]
AsciiDigit == {"1", "2"}

\* \d of a str pattern: every Unicode decimal digit
DecimalDigit == AsciiDigit \cup {ArabicThree}

\* [\u4e00-\u9fff]
CJK == {Han, HanWen}

\* [-'] inside a word
WordJoiner == {"-", "'"}

\* [.。,，!！?？;；:：] after a Latin run
LatinTrail == {".", IdeoStop, ",", FullComma, "!", FullExcl, "?", FullQuestion,
               ";", FullSemi, ":", FullColon}

\* [。，！？；：] after a CJK run
CJKTrail == {IdeoStop, FullComma, FullExcl, FullQuestion, FullSemi, FullColon}

(***************************************************************************)
(* Python string helpers.                                                  *)
(***************************************************************************)
\* the position after the maximal run of class characters starting at i
RECURSIVE RunEnd(_, _, _)
RunEnd(s, i, class) ==
    IF i <= Len(s) /\ s[i] \in class THEN RunEnd(s, i + 1, class) ELSE i

RECURSIVE LStrip(_)
LStrip(s) ==
    IF s # <<>> /\ Head(s) \in Whitespace THEN LStrip(Tail(s)) ELSE s

RECURSIVE RStrip(_)
RStrip(s) ==
    IF s # <<>> /\ s[Len(s)] \in Whitespace
    THEN RStrip(SubSeq(s, 1, Len(s) - 1))
    ELSE s

\* mutant of strip: s.strip(" "), which leaves newlines
StripSpaces(s) ==
    LET lead == RunEnd(s, 1, {SP})
        t == SubSeq(s, lead, Len(s))
        keep == IF \E k \in 1..Len(t) : t[k] # SP
                THEN CHOOSE k \in 1..Len(t) :
                         t[k] # SP /\ \A m \in (k + 1)..Len(t) : t[m] = SP
                ELSE 0
    IN SubSeq(t, 1, keep)

\* str.strip()
strip(s) == RStrip(LStrip(s))

\* sep.join(parts)
RECURSIVE Join(_, _)
Join(parts, sep) ==
    IF parts = <<>> THEN <<>>
    ELSE IF Len(parts) = 1 THEN parts[1]
    ELSE parts[1] \o sep \o Join(Tail(parts), sep)

\* " ".join(parts)
JoinSpace(parts) == Join(parts, <<SP>>)

\* does sep occur in s at position i
OccursAt(s, sep, i) ==
    /\ i + Len(sep) - 1 <= Len(s)
    /\ SubSeq(s, i, i + Len(sep) - 1) = sep

\* s.split(sep) from position i, the current part starting at position from
RECURSIVE SplitFrom(_, _, _, _)
SplitFrom(s, sep, from, i) ==
    IF i > Len(s) THEN <<SubSeq(s, from, Len(s))>>
    ELSE IF OccursAt(s, sep, i)
         THEN <<SubSeq(s, from, i - 1)>>
              \o SplitFrom(s, sep, i + Len(sep), i + Len(sep))
         ELSE SplitFrom(s, sep, from, i + 1)

\* s.split(sep)
Split(s, sep) == SplitFrom(s, sep, 1, 1)

\* s.split(): the runs of non-whitespace
RECURSIVE SplitWords(_)
SplitWords(s) ==
    LET t == LStrip(s) IN
    IF t = <<>> THEN <<>>
    ELSE LET e == CHOOSE k \in 1..(Len(t) + 1) :
                      /\ k = Len(t) + 1 \/ t[k] \in Whitespace
                      /\ \A m \in 1..(k - 1) : t[m] \notin Whitespace
         IN <<SubSeq(t, 1, e - 1)>> \o SplitWords(SubSeq(t, e, Len(t)))

\* [x for x in parts if x.strip()]
RECURSIVE NonBlank(_)
NonBlank(parts) ==
    IF parts = <<>> THEN <<>>
    ELSE IF strip(Head(parts)) # <<>>
         THEN <<Head(parts)>> \o NonBlank(Tail(parts))
         ELSE NonBlank(Tail(parts))

\* [x.strip() for x in parts]
StripAll(parts) == [k \in 1..Len(parts) |-> strip(parts[k])]

(***************************************************************************)
(* count_units                                                             *)
(***************************************************************************)
\* (?:[-'][a-zA-Z0-9]+)* from position i: the position after it
RECURSIVE JoinedPartsEnd(_, _)
JoinedPartsEnd(s, i) ==
    IF i + 1 <= Len(s) /\ s[i] \in WordJoiner /\ s[i + 1] \in Alnum
    THEN JoinedPartsEnd(s, RunEnd(s, i + 1, Alnum))
    ELSE i

\* [a-zA-Z0-9]+(?:\.\d+)?(?:[-'][a-zA-Z0-9]+)* matched at i (s[i] is
\* alphanumeric): the position after the match
WordEnd(s, i) ==
    LET e1 == RunEnd(s, i, Alnum)
        e2 == IF e1 + 1 <= Len(s) /\ s[e1] = "." /\ s[e1 + 1] \in DecimalDigit
              THEN RunEnd(s, e1 + 1, DecimalDigit)
              ELSE e1
    IN JoinedPartsEnd(s, e2)

\* re.findall(pattern, text) of count_units, scanning from position i
RECURSIVE FindUnits(_, _)
FindUnits(s, i) ==
    IF i > Len(s) THEN <<>>
    ELSE IF s[i] \in CJK THEN <<SubSeq(s, i, i)>> \o FindUnits(s, i + 1)
    ELSE IF s[i] \in Alnum
         THEN LET e == WordEnd(s, i)
              IN <<SubSeq(s, i, e - 1)>> \o FindUnits(s, e)
         ELSE FindUnits(s, i + 1)

count_units(t) ==
    IF strip(t) = <<>> THEN 0 ELSE Len(FindUnits(t, 1))

(***************************************************************************)
(* split_by_punct: a punctuation is a literal string or the compiled       *)
(* sentence-end pattern.                                                   *)
(***************************************************************************)
Lit(s) == [kind |-> "str", s |-> s]

\* re.compile(r"(?<![0-9])[.。](?![0-9])|[?？!！]")
SentenceEndRe == [kind |-> "re", s |-> <<>>]

\* the pattern matches the one character at position i
SentenceEndAt(s, i) ==
    \/ /\ s[i] \in {".", IdeoStop}
       /\ ~(i > 1 /\ s[i - 1] \in AsciiDigit)
       /\ ~(i < Len(s) /\ s[i + 1] \in AsciiDigit)
    \/ s[i] \in {"?", FullQuestion, "!", FullExcl}

\* the finditer loop and the remainder after the last match
RECURSIVE RegexPieces(_, _, _)
RegexPieces(s, last_pos, i) ==
    IF i > Len(s)
    THEN IF last_pos <= Len(s) THEN <<SubSeq(s, last_pos, Len(s))>> ELSE <<>>
    ELSE IF SentenceEndAt(s, i)
         THEN <<SubSeq(s, last_pos, i)>> \o RegexPieces(s, i + 1, i + 1)
         ELSE RegexPieces(s, last_pos, i + 1)

\* [p.strip() + punct for p in parts if p.strip()]
RECURSIVE SuffixNonBlank(_, _)
SuffixNonBlank(parts, punct) ==
    IF parts = <<>> THEN <<>>
    ELSE IF strip(Head(parts)) # <<>>
         THEN <<strip(Head(parts)) \o punct>> \o SuffixNonBlank(Tail(parts), punct)
         ELSE SuffixNonBlank(Tail(parts), punct)

\* mutant of split_by_punct: the literal separator is dropped, not kept
split_by_punct_dropping(t, punct) ==
    IF punct.kind = "re"
    THEN StripAll(NonBlank(RegexPieces(t, 1, 1)))
    ELSE LET parts == Split(t, punct.s)
             n == Len(parts)
         IN SuffixNonBlank(SubSeq(parts, 1, n - 1), <<>>)
            \o <<strip(parts[n])>>

split_by_punct(t, punct) ==
    IF punct.kind = "re"
    THEN StripAll(NonBlank(RegexPieces(t, 1, 1)))
    ELSE LET parts == Split(t, punct.s)
             n == Len(parts)
         IN SuffixNonBlank(SubSeq(parts, 1, n - 1), punct.s)
            \o <<strip(parts[n])>>

\* for part in splits: new_splits.extend(split_by_punct(part, punct))
RECURSIVE SplitEach(_, _)
SplitEach(splits, punct) ==
    IF splits = <<>> THEN <<>>
    ELSE split_by_punct(Head(splits), punct) \o SplitEach(Tail(splits), punct)

\* for punct in level: splits = [pieces of every part]
RECURSIVE SplitSuccessively(_, _)
SplitSuccessively(splits, puncts) ==
    IF puncts = <<>> THEN splits
    ELSE SplitSuccessively(SplitEach(splits, Head(puncts)), Tail(puncts))

punct_levels ==
    << <<Lit(<<NL, NL>>)>>,
       <<SentenceEndRe>>,
       <<Lit(<<";">>), Lit(<<":">>), Lit(<<FullSemi>>), Lit(<<FullColon>>)>>,
       <<Lit(<<",">>), Lit(<<FullComma>>)>> >>

NumLevels == Len(punct_levels)

\* the splits of the whole text at one level of punct_levels
LevelSplits(t, lv) ==
    IF lv = 1
    THEN split_by_punct(t, punct_levels[1][1])
    ELSE SplitSuccessively(<<t>>, punct_levels[lv])

(***************************************************************************)
(* split_mixed_text.  A generator's result is the chunks it yields and     *)
(* whether it then raised (range() with a zero step raises ValueError).    *)
(***************************************************************************)
Yielded(chunks) == [out |-> chunks, raised |-> FALSE]

Raises == [out |-> <<>>, raised |-> TRUE]

\* r1 followed by r2, which runs only if r1 did not raise
Then(r1, r2) ==
    IF r1.raised THEN r1
    ELSE [out |-> r1.out \o r2.out, raised |-> r2.raised]

\* (?:\s+WORD)* from position i: the position after it
RECURSIVE MoreWordsEnd(_, _)
MoreWordsEnd(s, i) ==
    LET k == RunEnd(s, i, Whitespace) IN
    IF k > i /\ k <= Len(s) /\ s[k] \in Alnum
    THEN MoreWordsEnd(s, WordEnd(s, k))
    ELSE i

\* mutant of LatinSegmentEnd: the run goes on across CJK characters
LatinSegmentEndAcrossScripts(s, i) ==
    LET e == RunEnd(s, i, Alnum \cup CJK \cup {SP})
    IN IF e <= Len(s) /\ s[e] \in LatinTrail THEN e + 1 ELSE e

\* the Latin alternative of the pattern matched at i
LatinSegmentEnd(s, i) ==
    LET e == MoreWordsEnd(s, WordEnd(s, i))
    IN IF e <= Len(s) /\ s[e] \in LatinTrail THEN e + 1 ELSE e

\* the CJK alternative of the pattern matched at i
CJKSegmentEnd(s, i) ==
    LET e == RunEnd(s, i, CJK)
    IN IF e <= Len(s) /\ s[e] \in CJKTrail THEN e + 1 ELSE e

\* re.findall(pattern, text) of split_mixed_text, scanning from position i
RECURSIVE FindSegments(_, _)
FindSegments(s, i) ==
    IF i > Len(s) THEN <<>>
    ELSE IF s[i] \in Alnum
         THEN LET e == LatinSegmentEnd(s, i)
              IN <<SubSeq(s, i, e - 1)>> \o FindSegments(s, e)
    ELSE IF s[i] \in CJK
         THEN LET e == CJKSegmentEnd(s, i)
              IN <<SubSeq(s, i, e - 1)>> \o FindSegments(s, e)
    ELSE FindSegments(s, i + 1)

\* for i in range(0, len(chars), max_len) with max_len > 0, from offset i
\* mutant of CJKWindows: i + max_len > len(chars)
RECURSIVE CJKWindowsStrict(_, _, _, _)
CJKWindowsStrict(chars, punct, max_len, i) ==
    IF i >= Len(chars) THEN <<>>
    ELSE LET hi == IF i + max_len < Len(chars) THEN i + max_len ELSE Len(chars)
             chunk == SubSeq(chars, i + 1, hi)
         IN <<IF i + max_len > Len(chars) /\ punct # <<>>
              THEN chunk \o punct
              ELSE chunk>>
            \o CJKWindowsStrict(chars, punct, max_len, i + max_len)

RECURSIVE CJKWindows(_, _, _, _)
CJKWindows(chars, punct, max_len, i) ==
    IF i >= Len(chars) THEN <<>>
    ELSE LET hi == IF i + max_len < Len(chars) THEN i + max_len ELSE Len(chars)
             chunk == SubSeq(chars, i + 1, hi)
         IN <<IF i + max_len >= Len(chars) /\ punct # <<>>
              THEN chunk \o punct
              ELSE chunk>>
            \o CJKWindows(chars, punct, max_len, i + max_len)

\* the Chinese branch for one segment
SplitChinese(segment, max_len) ==
    LET chars == SelectSeq(segment, LAMBDA c : c \in CJK)
        punct == IF segment[Len(segment)] \in CJKTrail
                 THEN <<segment[Len(segment)]>>
                 ELSE <<>>
    IN IF max_len = 0 THEN Raises
       ELSE IF max_len < 0 THEN Yielded(<<>>)
       ELSE Yielded(CJKWindows(chars, punct, max_len, 0))

\* mutant of PackWords: len(current_chunk) <= max_len
RECURSIVE PackWordsOffByOne(_, _, _)
PackWordsOffByOne(words, current_chunk, max_len) ==
    IF words = <<>>
    THEN IF current_chunk # <<>> THEN <<JoinSpace(current_chunk)>> ELSE <<>>
    ELSE IF Len(current_chunk) <= max_len
         THEN PackWordsOffByOne(Tail(words), Append(current_chunk, Head(words)),
                                max_len)
         ELSE <<JoinSpace(current_chunk)>>
              \o PackWordsOffByOne(Tail(words), <<Head(words)>>, max_len)

\* the loop over words of the English branch, and the final yield
RECURSIVE PackWords(_, _, _)
PackWords(words, current_chunk, max_len) ==
    IF words = <<>>
    THEN IF current_chunk # <<>> THEN <<JoinSpace(current_chunk)>> ELSE <<>>
    ELSE IF Len(current_chunk) < max_len
         THEN PackWords(Tail(words), Append(current_chunk, Head(words)), max_len)
         ELSE <<JoinSpace(current_chunk)>>
              \o PackWords(Tail(words), <<Head(words)>>, max_len)

\* the English branch for one segment
SplitEnglish(segment, max_len) ==
    Yielded(PackWords(SplitWords(segment), <<>>, max_len))

\* for segment in segments
RECURSIVE SplitSegments(_, _)
SplitSegments(segments, max_len) ==
    IF segments = <<>> THEN Yielded(<<>>)
    ELSE Then(IF Head(segments)[1] \in CJK
              THEN SplitChinese(Head(segments), max_len)
              ELSE SplitEnglish(Head(segments), max_len),
              SplitSegments(Tail(segments), max_len))

split_mixed_text(t, max_len) ==
    IF strip(t) = <<>> THEN Yielded(<<>>)
    ELSE SplitSegments(NonBlank(FindSegments(t, 1)), max_len)

(***************************************************************************)
(* merge_splits                                                            *)
(***************************************************************************)
all_puncts ==
    <<SentenceEndRe, Lit(<<";">>), Lit(<<":">>), Lit(<<FullSemi>>),
      Lit(<<FullColon>>), Lit(<<",">>), Lit(<<FullComma>>)>>

\* one pass of "for part in subsplits": split the parts still over budget
RECURSIVE SplitOversized(_, _, _)
SplitOversized(subsplits, punct, max) ==
    IF subsplits = <<>> THEN <<>>
    ELSE (IF count_units(Head(subsplits)) > max
          THEN NonBlank(split_by_punct(Head(subsplits), punct))
          ELSE <<Head(subsplits)>>)
         \o SplitOversized(Tail(subsplits), punct, max)

\* for punct in all_puncts
RECURSIVE AllSubsplits(_, _, _)
AllSubsplits(subsplits, puncts, max) ==
    IF puncts = <<>> THEN subsplits
    ELSE AllSubsplits(SplitOversized(subsplits, Head(puncts), max),
                      Tail(puncts), max)

\* "Try to combine splits greedily": the loop over subsplits and the last flush
RECURSIVE PackSubsplits(_, _, _, _)
PackSubsplits(subsplits, current_chunk, current_units, max) ==
    IF subsplits = <<>>
    THEN Yielded(IF current_chunk # <<>>
                 THEN <<JoinSpace(current_chunk)>>
                 ELSE <<>>)
    ELSE LET split == Head(subsplits)
             split_units == count_units(split)
             flush == IF current_chunk # <<>>
                      THEN <<JoinSpace(current_chunk)>>
                      ELSE <<>>
         IN IF split_units > max
            THEN Then(Yielded(flush),
                      Then(split_mixed_text(split, max),
                           PackSubsplits(Tail(subsplits), <<>>, 0, max)))
            ELSE IF current_units + split_units <= max
            THEN PackSubsplits(Tail(subsplits), Append(current_chunk, split),
                               current_units + split_units, max)
            ELSE Then(Yielded(flush),
                      PackSubsplits(Tail(subsplits), <<split>>, split_units, max))

\* the branch of merge_splits for a split that is over budget by itself
ResplitOversized(text_to_split, max) ==
    PackSubsplits(AllSubsplits(<<text_to_split>>, all_puncts, max), <<>>, 0, max)

\* for j in range(i + 1, len(splits)): the last j accepted, starting at j
RECURSIVE BestEnd(_, _, _, _)
BestEnd(splits, i, j, max) ==
    IF j > Len(splits) THEN j - 1
    ELSE IF count_units(JoinSpace(SubSeq(splits, i, j))) <= max
         THEN BestEnd(splits, i, j + 1, max)
         ELSE j - 1

\* while i < len(splits)
RECURSIVE MergeFrom(_, _, _)
MergeFrom(splits, i, max) ==
    IF i > Len(splits) THEN Yielded(<<>>)
    ELSE IF count_units(splits[i]) > max
         THEN Then(ResplitOversized(splits[i], max), MergeFrom(splits, i + 1, max))
         ELSE LET best_end == BestEnd(splits, i, i + 1, max)
              IN Then(Yielded(<<JoinSpace(SubSeq(splits, i, best_end))>>),
                      MergeFrom(splits, best_end + 1, max))

merge_splits(splits, max) == MergeFrom(splits, 1, max)

\* mutant of AllWithinBudget: count_units(chunk) < max_units
AllBelowBudget(chunks, max) ==
    \A k \in 1..Len(chunks) : count_units(chunks[k]) < max

\* all(count_units(chunk) <= max_units for chunk in merged)
AllWithinBudget(chunks, max) ==
    \A k \in 1..Len(chunks) : count_units(chunks[k]) <= max

(***************************************************************************)
(* Inputs: every text of at most MaxLen code points over one of a few      *)
(* small alphabets, and every budget from -1 to MaxUnits.                  *)
(***************************************************************************)
MaxLen == 5

MaxUnits == 2

\* alphabets whose texts are enumerated up to MaxLen code points
SmallAlphabets ==
    { {"1", "-", "."},
      {Han, IdeoStop, "a"},
      {"a", ".", ArabicThree},
      {"a", SP, ","},
      {"a", NL, SP},
      {"a", Han, SP},
      {Han, HanWen, IdeoStop} }

\* alphabets whose texts are enumerated up to MaxLen - 1 code points
WideAlphabets ==
    { {"a", "1", ".", SP},
      {"a", ".", ";", ","},
      {"a", NL, ",", Han},
      {Han, IdeoStop, "a", SP} }

StringsOver(alphabet, n) == UNION {[1..k -> alphabet] : k \in 0..n}

Texts ==
    UNION ({StringsOver(alphabet, MaxLen) : alphabet \in SmallAlphabets}
           \cup {StringsOver(alphabet, MaxLen - 1) : alphabet \in WideAlphabets})

Budgets == (0 - 1)..MaxUnits

(***************************************************************************)
(* The calls.  chunk_text is a generator: out is what it has yielded when  *)
(* it returns or raises.  via records the path that produced out.          *)
(***************************************************************************)
Init ==
    /\ input \in Texts
    /\ max_units \in Budgets
    /\ pc = "call"
    /\ op = "none"
    /\ text = <<>>
    /\ level = 0
    /\ out = <<>>
    /\ raised = FALSE
    /\ ret = 0
    /\ via = "none"

\* count_units(input)
CallCountUnits ==
    /\ pc = "call"
    /\ op' = "count_units"
    /\ ret' = count_units(input)
    /\ pc' = "done"
    /\ UNCHANGED <<input, max_units, text, level, out, raised, via>>

\* list(split_mixed_text(input, max_units))
CallSplitMixedText ==
    /\ pc = "call"
    /\ op' = "split_mixed_text"
    /\ LET r == split_mixed_text(input, max_units)
       IN out' = r.out /\ raised' = r.raised
    /\ pc' = "done"
    /\ UNCHANGED <<input, max_units, text, level, ret, via>>

\* chunk_text: text = text.strip(); if not text: return
ChunkTextBlank ==
    /\ pc = "call"
    /\ strip(input) = <<>>
    /\ op' = "chunk_text"
    /\ text' = strip(input)
    /\ via' = "blank"
    /\ pc' = "done"
    /\ UNCHANGED <<input, max_units, level, out, raised, ret>>

\* mutant of ChunkTextFastPath: the untrimmed argument is yielded
ChunkTextFastPathUntrimmed ==
    /\ pc = "call"
    /\ strip(input) # <<>>
    /\ count_units(strip(input)) <= max_units
    /\ op' = "chunk_text"
    /\ text' = strip(input)
    /\ out' = <<input>>
    /\ via' = "fast"
    /\ pc' = "done"
    /\ UNCHANGED <<input, max_units, level, raised, ret>>

\* chunk_text: if count_units(text) <= max_units: yield text; return
ChunkTextFastPath ==
    /\ pc = "call"
    /\ strip(input) # <<>>
    /\ count_units(strip(input)) <= max_units
    /\ op' = "chunk_text"
    /\ text' = strip(input)
    /\ out' = <<strip(input)>>
    /\ via' = "fast"
    /\ pc' = "done"
    /\ UNCHANGED <<input, max_units, level, raised, ret>>

\* chunk_text: the text is over budget, enter the loop over punct_levels
ChunkTextEnterLevels ==
    /\ pc = "call"
    /\ strip(input) # <<>>
    /\ count_units(strip(input)) > max_units
    /\ op' = "chunk_text"
    /\ text' = strip(input)
    /\ level' = 1
    /\ pc' = "levels"
    /\ UNCHANGED <<input, max_units, out, raised, ret, via>>

\* one iteration: more than one split and the merge is within budget
LevelAccept ==
    /\ pc = "levels"
    /\ level <= NumLevels
    /\ LET splits == LevelSplits(text, level)
           merged == merge_splits(splits, max_units)
       IN /\ Len(splits) > 1
          /\ ~merged.raised
          /\ AllWithinBudget(merged.out, max_units)
          /\ out' = merged.out
    /\ via' = "level"
    /\ pc' = "done"
    /\ UNCHANGED <<input, max_units, op, text, level, raised, ret>>

\* one iteration: the merge raises out of chunk_text before any yield
LevelRaise ==
    /\ pc = "levels"
    /\ level <= NumLevels
    /\ LET splits == LevelSplits(text, level)
       IN /\ Len(splits) > 1
          /\ merge_splits(splits, max_units).raised
    /\ raised' = TRUE
    /\ via' = "level"
    /\ pc' = "done"
    /\ UNCHANGED <<input, max_units, op, text, level, out, ret>>

\* one iteration: a single split, or a merged chunk over budget: next level
LevelNext ==
    /\ pc = "levels"
    /\ level <= NumLevels
    /\ LET splits == LevelSplits(text, level)
           merged == merge_splits(splits, max_units)
       IN \/ Len(splits) <= 1
          \/ ~merged.raised /\ ~AllWithinBudget(merged.out, max_units)
    /\ level' = level + 1
    /\ UNCHANGED <<input, max_units, pc, op, text, out, raised, ret, via>>

\* after the loop: yield from split_mixed_text(text, max_units)
Fallback ==
    /\ pc = "levels"
    /\ level > NumLevels
    /\ LET r == split_mixed_text(text, max_units)
       IN out' = r.out /\ raised' = r.raised
    /\ via' = "fallback"
    /\ pc' = "done"
    /\ UNCHANGED <<input, max_units, op, text, level, ret>>

Next ==
    \/ CallCountUnits
    \/ CallSplitMixedText
    \/ ChunkTextBlank
    \/ ChunkTextFastPath
    \/ ChunkTextEnterLevels
    \/ LevelAccept
    \/ LevelRaise
    \/ LevelNext
    \/ Fallback

Spec == Init /\ [][Next]_vars

(***************************************************************************)
(* Vocabulary of the properties.                                           *)
(***************************************************************************)
ChunkTextDone == pc = "done" /\ op = "chunk_text"

SplitMixedDone == pc = "done" /\ op = "split_mixed_text"

\* the concatenation of a sequence of sequences
RECURSIVE Flatten(_)
Flatten(ss) == IF ss = <<>> THEN <<>> ELSE Head(ss) \o Flatten(Tail(ss))

\* the units of every chunk, in yield order
UnitsOfChunks(chunks) == Flatten([k \in 1..Len(chunks) |-> FindUnits(chunks[k], 1)])

HasLatin(s) == \E k \in 1..Len(s) : s[k] \in Alnum

HasCJK(s) == \E k \in 1..Len(s) : s[k] \in CJK

\* empty, or nothing but spaces and newlines
IsBlank(s) == \A k \in 1..Len(s) : s[k] \in {SP, NL}

\* sub occurs in s as a contiguous run
Contains(s, sub) == \E i \in 1..Len(s) : OccursAt(s, sub, i)

\* the periods of s that stand between two ASCII digits
DecimalPoints(s) ==
    {i \in 2..(Len(s) - 1) :
        s[i] = "." /\ s[i - 1] \in AsciiDigit /\ s[i + 1] \in AsciiDigit}

RECURSIVE SumDecimalPoints(_)
SumDecimalPoints(chunks) ==
    IF chunks = <<>> THEN 0
    ELSE Cardinality(DecimalPoints(Head(chunks))) + SumDecimalPoints(Tail(chunks))

\* one chunk is Latin only and the other CJK only
ScriptBoundary(c1, c2) ==
    \/ HasLatin(c1) /\ ~HasCJK(c1) /\ HasCJK(c2) /\ ~HasLatin(c2)
    \/ HasCJK(c1) /\ ~HasLatin(c1) /\ HasLatin(c2) /\ ~HasCJK(c2)

\* the trimmed non-blank paragraphs of a text
Paragraphs(t) == StripAll(NonBlank(Split(t, <<NL, NL>>)))

(***************************************************************************)
(* C1. Budget invariant: with max_units >= 1, every chunk chunk_text has   *)
(* yielded counts at most max_units units, whichever path produced it.     *)
(***************************************************************************)
BudgetInvariant ==
    (ChunkTextDone /\ max_units >= 1)
        => \A k \in 1..Len(out) : count_units(out[k]) <= max_units

\* a level result of several chunks, one full, with a segment over budget
BudgetWitness ==
    /\ ChunkTextDone /\ max_units >= 2 /\ via = "level"
    /\ Len(out) >= 3
    /\ \E k \in 1..Len(out) : count_units(out[k]) = max_units
    /\ \E k \in 1..Len(LevelSplits(text, level)) :
           count_units(LevelSplits(text, level)[k]) > max_units

(***************************************************************************)
(* C2 as stated. Every text with count_units(text) <= max_units is yielded *)
(* by the fast path as exactly one chunk, the trimmed input.               *)
(***************************************************************************)
FastPathEveryText ==
    (ChunkTextDone /\ count_units(input) <= max_units)
        => (via = "fast" /\ out = <<RStrip(LStrip(input))>>)

(***************************************************************************)
(* C2 amended. Every non-blank text with count_units(text) <= max_units is *)
(* yielded by the fast path as exactly one chunk, the trimmed input.       *)
(***************************************************************************)
FastPathNonBlank ==
    (ChunkTextDone /\ ~IsBlank(input) /\ count_units(input) <= max_units)
        => (via = "fast" /\ out = <<RStrip(LStrip(input))>>)

\* a text within budget with punctuation inside and whitespace around it
FastPathWitness ==
    /\ ChunkTextDone /\ via = "fast"
    /\ input # text
    /\ count_units(input) >= 2
    /\ \E k \in 1..Len(text) : text[k] \in LatinTrail

(***************************************************************************)
(* C3. With max_units >= 1, the units of the chunks, concatenated in yield *)
(* order, are exactly the units of the input text.                         *)
(***************************************************************************)
UnitSequencePreserved ==
    (ChunkTextDone /\ max_units >= 1)
        => UnitsOfChunks(out) = FindUnits(input, 1)

(***************************************************************************)
(* C4. A budget below 1 is reported at once as an invalid argument by      *)
(* chunk_text and by split_mixed_text, and no chunk is yielded.            *)
(***************************************************************************)
InvalidBudgetReported ==
    ((ChunkTextDone \/ SplitMixedDone) /\ max_units < 1)
        => (raised /\ out = <<>>)

(***************************************************************************)
(* C5. With max_units >= 1, no two consecutive chunks of chunk_text fit    *)
(* the budget together, unless they lie on a Latin/CJK script boundary.    *)
(***************************************************************************)
GreedyPacking ==
    (ChunkTextDone /\ max_units >= 1)
        => \A k \in 1..(Len(out) - 1) :
               count_units(out[k]) + count_units(out[k + 1]) <= max_units
                   => ScriptBoundary(out[k], out[k + 1])

(***************************************************************************)
(* C6. With max_units >= 1, no period between two digits is a chunk        *)
(* boundary: every such period of the input stands between its two digits  *)
(* inside one chunk.                                                       *)
(***************************************************************************)
DecimalsWhole ==
    (ChunkTextDone /\ max_units >= 1)
        => SumDecimalPoints(out) = Cardinality(DecimalPoints(input))

(***************************************************************************)
(* C7. With max_len >= 1, no chunk of split_mixed_text holds both a Latin  *)
(* unit and a CJK character.                                               *)
(***************************************************************************)
ScriptSeparation ==
    ((SplitMixedDone \/ (ChunkTextDone /\ via = "fallback")) /\ max_units >= 1)
        => \A k \in 1..Len(out) : ~(HasLatin(out[k]) /\ HasCJK(out[k]))

\* split_mixed_text on a text where a Latin word touches a CJK character
ScriptSeparationWitness ==
    /\ SplitMixedDone /\ max_units >= 2
    /\ \E i \in 1..(Len(input) - 1) :
           \/ input[i] \in Alnum /\ input[i + 1] \in CJK
           \/ input[i] \in CJK /\ input[i + 1] \in Alnum
    /\ Len(out) >= 2

(***************************************************************************)
(* C8. For an empty or whitespace-only text chunk_text yields nothing and  *)
(* raises nothing, and count_units returns 0.                              *)
(***************************************************************************)
BlankInput ==
    (pc = "done" /\ IsBlank(input))
        => /\ op = "chunk_text" => (out = <<>> /\ ~raised)
           /\ op = "count_units" => ret = 0

\* chunk_text has returned on a text of whitespace only
BlankInputWitness ==
    /\ ChunkTextDone /\ via = "blank"
    /\ Len(input) >= 2
    /\ \E k \in 1..Len(input) : input[k] = NL

(***************************************************************************)
(* C9 as stated. A result taken from the paragraph level has no chunk that *)
(* contains the paragraph break, and no chunk with leading or trailing     *)
(* whitespace.                                                             *)
(***************************************************************************)
ParagraphBreakDropped ==
    (ChunkTextDone /\ via = "level" /\ level = 1)
        => \A k \in 1..Len(out) :
               /\ ~Contains(out[k], <<NL, NL>>)
               /\ RStrip(LStrip(out[k])) = out[k]

(***************************************************************************)
(* C9 amended. The paragraph level keeps the break as the suffix of every  *)
(* piece but the last: in a result taken from it no chunk is empty or      *)
(* starts with whitespace, and a chunk ends with whitespace only if it     *)
(* ends with a kept break; when every paragraph fits the budget but no two *)
(* neighbours fit together, the chunks are the trimmed paragraphs, each    *)
(* but the last followed by the break.                                     *)
(***************************************************************************)
ParagraphBreakKept ==
    (ChunkTextDone /\ via = "level" /\ level = 1)
        => /\ \A k \in 1..Len(out) :
                  /\ out[k] # <<>>
                  /\ out[k][1] \notin {SP, NL}
                  /\ \/ out[k][Len(out[k])] \notin {SP, NL}
                     \/ /\ Len(out[k]) >= 3
                        /\ SubSeq(out[k], Len(out[k]) - 1, Len(out[k])) = <<NL, NL>>
                        /\ out[k][Len(out[k]) - 2] \notin {SP, NL}
           /\ LET P == Paragraphs(text)
                  n == Len(P)
              IN (/\ \A i \in 1..n : count_units(P[i]) <= max_units
                  /\ \A i \in 1..(n - 1) :
                         count_units(P[i]) + count_units(P[i + 1]) > max_units)
                     => out = [i \in 1..n |->
                                  IF i < n THEN P[i] \o <<NL, NL>> ELSE P[i]]

\* paragraphs that each fit the budget, no two neighbours together
ParagraphWitness ==
    /\ ChunkTextDone /\ via = "level" /\ level = 1 /\ max_units >= 1
    /\ Len(out) >= 2
    /\ LET P == Paragraphs(text)
       IN /\ \A i \in 1..Len(P) : count_units(P[i]) <= max_units
          /\ \A i \in 1..(Len(P) - 1) :
                 count_units(P[i]) + count_units(P[i + 1]) > max_units
          /\ \E i \in 1..Len(P) : NonBlank(Split(text, <<NL, NL>>))[i] # P[i]

(***************************************************************************)
(* C10. For a text over budget and max_units >= 1 the result is the merge  *)
(* of the first level (paragraph, sentence, semicolon/colon, comma) that   *)
(* splits the whole text into more than one segment, no finer level is     *)
(* tried, and split_mixed_text takes the whole text only when no level     *)
(* splits it.                                                              *)
(***************************************************************************)
SplittingLevels(t) == {lv \in 1..NumLevels : Len(LevelSplits(t, lv)) > 1}

TierAcceptance ==
    (ChunkTextDone /\ max_units >= 1 /\ count_units(input) > max_units)
        => IF SplittingLevels(text) = {}
           THEN via = "fallback" /\ level = NumLevels + 1
           ELSE /\ via = "level"
                /\ level \in SplittingLevels(text)
                /\ \A lv \in SplittingLevels(text) : level <= lv

\* a sentence level result for a text that the comma level would split too
TierAcceptanceWitness ==
    /\ ChunkTextDone /\ max_units >= 1 /\ via = "level"
    /\ level \in {2, 3}
    /\ \E lv \in SplittingLevels(text) : lv > level
    /\ \E k \in 1..Len(out) : count_units(out[k]) = max_units

(***************************************************************************)
(* C11. For a CJK run of n characters, with or without a trailing CJK      *)
(* punctuation mark, and max_len >= 1, split_mixed_text yields             *)
(* ceil(n / max_len) chunks in order: every chunk but the last is the next *)
(* max_len characters of the run, the last is the remaining characters     *)
(* followed by the mark, and no other chunk carries the mark.              *)
(***************************************************************************)
\* the number of leading CJK characters of s
LeadingCJK(s) == RunEnd(s, 1, CJK) - 1

\* s is one CJK run, with or without one trailing CJK punctuation mark
IsCJKRun(s) ==
    /\ LeadingCJK(s) >= 1
    /\ \/ Len(s) = LeadingCJK(s)
       \/ Len(s) = LeadingCJK(s) + 1 /\ s[Len(s)] \in CJKTrail

CJKFallbackWindows ==
    (SplitMixedDone /\ max_units >= 1 /\ IsCJKRun(input))
        => LET n == LeadingCJK(input)
               count == (n + max_units - 1) \div max_units
           IN /\ ~raised
              /\ Len(out) = count
              /\ \A k \in 1..(count - 1) :
                     out[k] = SubSeq(input, (k - 1) * max_units + 1, k * max_units)
              /\ out[count] = SubSeq(input, (count - 1) * max_units + 1, Len(input))

\* a run with a mark, cut into full windows and a shorter last one
CJKFallbackWitness ==
    /\ SplitMixedDone /\ max_units >= 2 /\ IsCJKRun(input)
    /\ Len(input) = LeadingCJK(input) + 1
    /\ Len(out) >= 2
    /\ Len(out[Len(out)]) <= max_units
    /\ \E i, j \in 1..LeadingCJK(input) : input[i] # input[j]

(***************************************************************************)
(* C12. For a non-blank text and max_units >= 1, every chunk chunk_text    *)
(* yields holds at least one non-whitespace character.                     *)
(***************************************************************************)
NoEmptyChunks ==
    (ChunkTextDone /\ max_units >= 1 /\ ~IsBlank(input))
        => \A k \in 1..Len(out) : ~IsBlank(out[k])

====
